---- MODULE Spec2Model ----
(***************************************************************************)
(* Model of the crypto-pulse-bot price aggregation engine:                 *)
(*   services/aggregator  (getAggregatedPrice, the TTL cache, the median)  *)
(*   services/coingecko   (fetchFromCoinGecko)                             *)
(*   services/binance     (fetchFromBinance)                               *)
(*   commands/price       (handlePriceCommand)                             *)
(*   commands/convert     (handleConvertCommand)                           *)
(* Node runs the handlers on one thread; a handler gives up control only   *)
(* at an await.  Each action below is one run-to-the-next-await piece of   *)
(* a handler.  A settled await is continued from the microtask queue,      *)
(* before the event loop delivers the next message, response or timer:     *)
(* Continue and Finish go before every other action (Urgent).              *)
(* Time is Date.now() in milliseconds and advances in Tick.                *)
(***************************************************************************)
EXTENDS Integers, Sequences, FiniteSets, TLC

VARIABLES clock, cache, proc, written

vars == <<clock, cache, proc, written>>

(***************************************************************************)
(* Bounds of the model.                                                    *)
(***************************************************************************)
NProcs == 2
MaxTime == 10000

Procs == 1..NProcs

(***************************************************************************)
(* JavaScript values.  Every value is a record [t, n, d]: t is the kind,   *)
(* n/d the (reduced) rational of a finite number, and n the number a       *)
(* numeric string spells.                                                  *)
(***************************************************************************)
Num(k) == [t |-> "number", n |-> k, d |-> 1]
JsNaN == [t |-> "NaN", n |-> 0, d |-> 1]
JsInfinity == [t |-> "Infinity", n |-> 0, d |-> 1]
JsNegInfinity == [t |-> "-Infinity", n |-> 0, d |-> 1]
JsNull == [t |-> "null", n |-> 0, d |-> 1]
JsUndefined == [t |-> "undefined", n |-> 0, d |-> 1]
\* a non-empty string spelling the decimal number k, such as Binance's "0.00000000"
NumStr(k) == [t |-> "numstr", n |-> k, d |-> 1]
\* a non-empty string that spells no number
BadStr == [t |-> "badstr", n |-> 0, d |-> 1]

IsNumberType(x) == x.t \in {"number", "NaN", "Infinity", "-Infinity"}
IsFinite(x) == x.t = "number"

\* Number(x)
ToNumber(x) ==
  CASE x.t = "null" -> Num(0)
    [] x.t = "undefined" -> JsNaN
    [] x.t = "numstr" -> Num(x.n)
    [] x.t = "badstr" -> JsNaN
    [] OTHER -> x

\* the truthiness of x, as `if (x)`, `!x` and `a && b` read it
Truthy(x) ==
  CASE x.t = "number" -> x.n # 0
    [] x.t \in {"NaN", "null", "undefined"} -> FALSE
    [] OTHER -> TRUE

Abs(k) == IF k < 0 THEN -k ELSE k

RECURSIVE Gcd(_, _)
Gcd(a, b) == IF b = 0 THEN a ELSE Gcd(b, a % b)

\* the finite number p/q (q # 0), reduced, sign in the numerator
Ratio(p, q) ==
  LET g == Gcd(Abs(p), Abs(q))
      s == IF q < 0 THEN -1 ELSE 1
  IN  [t |-> "number", n |-> (s * p) \div g, d |-> Abs(q) \div g]

Sign(x) ==
  CASE x.t = "Infinity" -> 1
    [] x.t = "-Infinity" -> -1
    [] x.t = "number" -> (IF x.n > 0 THEN 1 ELSE IF x.n < 0 THEN -1 ELSE 0)
    [] OTHER -> 0

SignedInfinity(s) == IF s > 0 THEN JsInfinity ELSE JsNegInfinity

\* a / b on numbers
JsDiv(a, b) ==
  IF a.t = "NaN" \/ b.t = "NaN" THEN JsNaN
  ELSE IF ~IsFinite(a)
    THEN (IF ~IsFinite(b) THEN JsNaN
          ELSE SignedInfinity(Sign(a) * (IF Sign(b) < 0 THEN -1 ELSE 1)))
  ELSE IF ~IsFinite(b) THEN Num(0)
  ELSE IF b.n = 0
    THEN (IF a.n = 0 THEN JsNaN ELSE SignedInfinity(Sign(a)))
  ELSE Ratio(a.n * b.d, a.d * b.n)

\* a * b on numbers
JsMul(a, b) ==
  IF a.t = "NaN" \/ b.t = "NaN" THEN JsNaN
  ELSE IF ~IsFinite(a) \/ ~IsFinite(b)
    THEN (IF Sign(a) * Sign(b) = 0 THEN JsNaN
          ELSE SignedInfinity(Sign(a) * Sign(b)))
  ELSE Ratio(a.n * b.n, a.d * b.d)

\* a - b on numbers, as the sort comparator computes it
JsSub(a, b) ==
  IF a.t = "NaN" \/ b.t = "NaN" THEN JsNaN
  ELSE IF ~IsFinite(a)
    THEN (IF b.t = a.t THEN JsNaN ELSE a)
  ELSE IF ~IsFinite(b) THEN SignedInfinity(-Sign(b))
  ELSE Ratio(a.n * b.d - b.n * a.d, a.d * b.d)

\* a < b on numbers (false when either is NaN)
JsLess(a, b) == Sign(JsSub(a, b)) < 0 /\ JsSub(a, b).t # "NaN"

(***************************************************************************)
(* Strings of the model and their case conversions.                        *)
(***************************************************************************)
Symbols == {"btc", "BTC", "eth"}
Quotes == {"usd", "USD"}
\* words with the character the cache key is joined by: /price splits its
\* text at white space only, and \w of the /convert pattern matches "_"
KeySymbols == {"a", "a_b"}
KeyQuotes == {"c", "b_c"}

\* String.prototype.toLowerCase on the strings of the model
ToLowerCase(s) ==
  CASE s = "BTC" -> "btc"
    [] s = "ETH" -> "eth"
    [] s = "USD" -> "usd"
    [] OTHER -> s

\* String.prototype.toUpperCase on the strings of the model
ToUpperCase(s) ==
  CASE s = "btc" -> "BTC"
    [] s = "eth" -> "ETH"
    [] s = "usd" -> "USD"
    [] s = "a" -> "A"
    [] s = "a_b" -> "A_B"
    [] s = "c" -> "C"
    [] s = "b_c" -> "B_C"
    [] OTHER -> s

(***************************************************************************)
(* services/coingecko: fetchFromCoinGecko.                                 *)
(***************************************************************************)
COIN_MAP ==
  [k \in {"btc", "eth", "usdt", "bnb", "xrp", "ada", "doge", "sol", "matic"} |->
     CASE k = "btc" -> "bitcoin"
       [] k = "eth" -> "ethereum"
       [] k = "usdt" -> "tether"
       [] k = "bnb" -> "binancecoin"
       [] k = "xrp" -> "ripple"
       [] k = "ada" -> "cardano"
       [] k = "doge" -> "dogecoin"
       [] k = "sol" -> "solana"
       [] k = "matic" -> "polygon"]

\* const id = (COIN_MAP[symbol.toLowerCase()] || symbol.toLowerCase())
CoinId(symbol) ==
  IF ToLowerCase(symbol) \in DOMAIN COIN_MAP
    THEN COIN_MAP[ToLowerCase(symbol)]
    ELSE ToLowerCase(symbol)

\* the request fetchFromCoinGecko sends
CoinGeckoRequest(symbol, vsCurrency) ==
  [ids |-> CoinId(symbol), vs_currencies |-> ToLowerCase(vsCurrency)]

\* What one HTTP request can come back with.  kind: "timeout" (axios gave up
\* after the request's timeout: 5000 ms here, 4000 ms for Binance; a request
\* settles at any moment, the model does not measure how long it took),
\* "neterr" (transport error), "http" (non-2xx
\* status), "nodata" (2xx, no body), "noid" (2xx, body without the coin id),
\* "ok" (2xx, price is the value of the price field, undefined when missing).
Faults == {"timeout", "neterr", "http"}
Response(kind, price) == [kind |-> kind, price |-> price]
NoResponse == Response("none", JsUndefined)

CgPrices == {JsUndefined, JsNull, Num(2), Num(-1), BadStr}
BnPrices == {JsUndefined, Num(0), NumStr(0), NumStr(1), BadStr}

CgResponses ==
  {Response(k, JsUndefined) : k \in Faults \cup {"nodata", "noid"}}
    \cup {Response("ok", x) : x \in CgPrices}
BnResponses ==
  {Response(k, JsUndefined) : k \in Faults \cup {"nodata"}}
    \cup {Response("ok", x) : x \in BnPrices}

\* The outcome of a provider client: it returns a value or it throws.
Return(v) == [threw |-> FALSE, v |-> v]
Throw == [threw |-> TRUE, v |-> JsUndefined]

\* faulty variant: the catch block lets a timeout escape
fetchFromCoinGeckoRethrow(res) ==
  IF res.kind = "timeout" THEN Throw
  ELSE IF res.kind \in Faults \/ res.kind \in {"nodata", "noid"}
            \/ res.price = JsUndefined
    THEN Return(JsNull)
  ELSE Return(ToNumber(res.price))

\* fetchFromCoinGecko once axios.get has settled with res
fetchFromCoinGecko(res) ==
  IF res.kind \in Faults
    THEN Return(JsNull)                       \* catch (err): warn, return null
  ELSE IF res.kind \in {"nodata", "noid"} \/ res.price = JsUndefined
    THEN Return(JsNull)
  ELSE Return(ToNumber(res.price))

(***************************************************************************)
(* services/binance: fetchFromBinance.                                     *)
(***************************************************************************)
\* faulty variant: the USD pair is tried before the USDT pair
pairsToTryUsdFirst(symbol, vsCurrency) ==
  << ToUpperCase(symbol) \o ToUpperCase(vsCurrency),
     ToUpperCase(symbol) \o "USD",
     ToUpperCase(symbol) \o "USDT" >>

\* const pairsToTry = [`${s}${v}`, `${s}USDT`, `${s}USD`]
pairsToTry(symbol, vsCurrency) ==
  << ToUpperCase(symbol) \o ToUpperCase(vsCurrency),
     ToUpperCase(symbol) \o "USDT",
     ToUpperCase(symbol) \o "USD" >>

\* if (res && res.data && res.data.price)
BinanceHasPrice(res) ==
  res.kind = "ok" /\ Truthy(res.price)

\* One turn of the loop over pairsToTry, once the request for candidate i of
\* pairs has settled with res: "return" a value, or go on with the "next"
\* candidate.
BinanceStep(pairs, i, res) ==
  IF res.kind \notin Faults /\ BinanceHasPrice(res)
    THEN [op |-> "return", out |-> Return(ToNumber(res.price))]
  \* no price, or catch (innerErr): ignore and try next pair
  ELSE IF i < Len(pairs) THEN [op |-> "next", out |-> Return(JsNull)]
  ELSE [op |-> "return", out |-> Return(JsNull)]    \* return null after the loop

(***************************************************************************)
(* services/aggregator: the cache, the median, getAggregatedPrice.         *)
(***************************************************************************)
TTL == 10 * 1000

\* faulty variant: the key leaves the symbol out
getCacheKeyNoSymbol(symbol, vs) == "_" \o ToLowerCase(vs)

\* faulty variant: the symbol goes into the key as typed
getCacheKeyAsTyped(symbol, vs) == symbol \o "_" \o ToLowerCase(vs)

\* `${symbol.toLowerCase()}_${vs.toLowerCase()}`
getCacheKey(symbol, vs) == ToLowerCase(symbol) \o "_" \o ToLowerCase(vs)

\* faulty variant: an entry of age TTL still counts as fresh
CacheHitInclusive(c, key, now) ==
  key \in DOMAIN c /\ (now - c[key].ts) <= TTL

\* cached && (now - cached.ts) < TTL
CacheHit(c, key, now) ==
  key \in DOMAIN c /\ (now - c[key].ts) < TTL

\* cache.set(key, { ts, value })
CacheSet(c, key, ts, value) ==
  [k \in DOMAIN c \cup {key} |->
     IF k = key THEN [ts |-> ts, value |-> value] ELSE c[k]]

\* const preferred = PREFERRED_PROVIDERS || ['coingecko','binance']
preferred == <<"coingecko", "binance">>

\* the comparator (a,b) => a-b as Array.prototype.sort reads it: a NaN
\* result counts as 0
Compare(a, b) == Sign(JsSub(a, b))

\* insert x into the sorted run s, after every element it does not precede
RECURSIVE Insert(_, _)
Insert(x, s) ==
  IF s = <<>> THEN <<x>>
  ELSE IF Compare(x, s[Len(s)]) < 0
    THEN Insert(x, SubSeq(s, 1, Len(s) - 1)) \o <<s[Len(s)]>>
  ELSE s \o <<x>>

\* prices.sort((a,b)=>a-b): stable insertion, as V8 sorts a short array
RECURSIVE SortAsc(_)
SortAsc(s) ==
  IF s = <<>> THEN <<>>
  ELSE Insert(s[Len(s)], SortAsc(SubSeq(s, 1, Len(s) - 1)))

\* faulty variant: the lower of the two middle prices of an even count
MedianOfLower(prices) == SortAsc(prices)[((Len(prices) - 1) \div 2) + 1]

\* prices[Math.floor(prices.length/2)] of the sorted prices (0-based index)
MedianOf(prices) == SortAsc(prices)[(Len(prices) \div 2) + 1]

\* faulty variant: an aggregation without any price is not cached
AggregateNoNullCache(c, key, now, results) ==
  IF Len(results) = 0
    THEN [cache |-> c, value |-> JsNull, sets |-> 0]
    ELSE LET prices == [i \in 1..Len(results) |-> results[i].price]
             median == MedianOf(prices)
         IN  [cache |-> CacheSet(c, key, now, median), value |-> median, sets |-> 1]

\* faulty variant: an aggregation without any price yields the number 0
AggregateZeroSentinel(c, key, now, results) ==
  IF Len(results) = 0
    THEN [cache |-> CacheSet(c, key, now, Num(0)), value |-> Num(0), sets |-> 1]
    ELSE LET prices == [i \in 1..Len(results) |-> results[i].price]
             median == MedianOf(prices)
         IN  [cache |-> CacheSet(c, key, now, median), value |-> median, sets |-> 1]

\* faulty variant: the result of an absent provider is collected too
PushAlways(results, provider, v) ==
  Append(results, [provider |-> provider, price |-> v])

\* if (v !== null) results.push({provider, price: v})
Push(results, provider, v) ==
  IF v # JsNull
    THEN Append(results, [provider |-> provider, price |-> v])
    ELSE results

\* The tail of getAggregatedPrice, from `if (results.length === 0)`, on the
\* Map c: the Map afterwards, the value returned, the number of cache.set calls
Aggregate(c, key, now, results) ==
  IF Len(results) = 0
    THEN [cache |-> CacheSet(c, key, now, JsNull), value |-> JsNull, sets |-> 1]
    ELSE LET prices == [i \in 1..Len(results) |-> results[i].price]
             median == MedianOf(prices)
         IN  [cache |-> CacheSet(c, key, now, median), value |-> median, sets |-> 1]

(***************************************************************************)
(* State.                                                                  *)
(*   clock    Date.now()                                                   *)
(*   cache    the module-level Map of the aggregator: key -> {ts, value}   *)
(*   proc     the handler invocations in flight, one per slot; proc[p].f   *)
(*            is the getAggregatedPrice call the handler is awaiting       *)
(*   written  history: per key of the Map, the outcome of the latest       *)
(*            aggregation that completed, the `now` it was stamped with,   *)
(*            the clock at the completion of the first one, and the        *)
(*            (symbol, quote) pair of the call that wrote it               *)
(***************************************************************************)
\* The identity of a call's query in the Map, and so in the history: the
\* lower-cased symbol and quote joined by "_".  Two pairs whose joined
\* strings coincide ("a_b" with "c", "a" with "b_c") are one query here, as
\* they are one key in the Map.
QueryId(symbol, vs) == ToLowerCase(symbol) \o "_" \o ToLowerCase(vs)

\* the (symbol, quote) pair of a call, lower-cased
PairOf(symbol, vs) == <<ToLowerCase(symbol), ToLowerCase(vs)>>

\* no getAggregatedPrice call
NoCall ==
  [pc |-> "none", symbol |-> "", vs |-> "", now |-> 0, results |-> <<>>,
   pair |-> 0, value |-> JsUndefined,
   \* history of the call
   hit |-> FALSE, found |-> FALSE, expired |-> FALSE,
   nCg |-> 0, nBn |-> 0, nSet |-> 0,
   cgRes |-> NoResponse, bnRes |-> NoResponse,
   cgRet |-> JsUndefined, bnRet |-> JsUndefined,
   cgReq |-> <<>>, bnReq |-> <<>>]

\* no handler running in the slot
Idle ==
  [cmd |-> "none", hpc |-> "idle", amount |-> JsUndefined, from |-> "", to |-> "",
   fromPrice |-> JsUndefined, toPrice |-> JsUndefined,
   reply |-> "none", result |-> JsUndefined, f |-> NoCall]

Init ==
  /\ clock = 0
  /\ cache = <<>>
  /\ proc = [p \in Procs |-> Idle]
  /\ written = <<>>

\* getAggregatedPrice(symbol, vs) from its call to its first await: the cache
\* lookup, then either the cached value or the first provider's request
Lookup(symbol, vs) ==
  LET key == getCacheKey(symbol, vs)
      now == clock
      base == [NoCall EXCEPT !.symbol = symbol, !.vs = vs, !.now = now,
                 !.found = key \in DOMAIN cache,
                 !.expired = key \in DOMAIN cache /\ now - cache[key].ts >= TTL]
  IN  IF CacheHit(cache, key, now)
        THEN [base EXCEPT !.pc = "ret", !.hit = TRUE, !.value = cache[key].value]
        ELSE \* preferred[1] = 'coingecko': fetchFromCoinGecko runs to axios.get
             [base EXCEPT !.pc = "cg", !.nCg = 1,
                !.cgReq = <<CoinGeckoRequest(symbol, vs)>>]

\* a handler is ready to run from the microtask queue, or is running its
\* last statements
Urgent ==
  \E p \in Procs :
    \/ proc[p].hpc = "replied"
    \/ proc[p].hpc \in {"await", "await2"} /\ proc[p].f.pc \in {"ret", "threw"}

\* a message is handled in the lowest free slot
FreeSlot(p) ==
  /\ ~Urgent
  /\ proc[p].hpc = "idle"
  /\ \A q \in Procs : q < p => proc[q].hpc # "idle"

(***************************************************************************)
(* commands/price: handlePriceCommand.                                     *)
(***************************************************************************)
\* parts[1] of a /price command without a second word
NoArg == ""

\* faulty variant: a cache hit moves the entry's timestamp to the time of
\* the read
PriceCommandRefreshing(p, symbol, vsArg) ==
  /\ FreeSlot(p)
  /\ LET vs == IF vsArg = NoArg THEN "usd" ELSE vsArg
         key == getCacheKey(symbol, vs)
     IN  /\ proc' = [proc EXCEPT ![p] =
               IF symbol = ""
                 THEN [Idle EXCEPT !.cmd = "price", !.hpc = "replied", !.reply = "usage"]
                 ELSE [Idle EXCEPT !.cmd = "price", !.hpc = "await", !.from = symbol,
                         !.to = vs, !.f = Lookup(symbol, vs)]]
         /\ cache' = IF symbol # "" /\ CacheHit(cache, key, clock)
                       THEN CacheSet(cache, key, clock, cache[key].value)
                       ELSE cache
  /\ UNCHANGED <<clock, written>>

\* handlePriceCommand up to `await getAggregatedPrice(symbol, vs)`.  symbol is
\* parts[0] (empty for a blank command), vsArg is parts[1] or NoArg.
PriceCommand(p, symbol, vsArg) ==
  /\ FreeSlot(p)
  /\ LET vs == IF vsArg = NoArg THEN "usd" ELSE vsArg
     IN  proc' = [proc EXCEPT ![p] =
           IF symbol = ""
             THEN [Idle EXCEPT !.cmd = "price", !.hpc = "replied", !.reply = "usage"]
             ELSE [Idle EXCEPT !.cmd = "price", !.hpc = "await", !.from = symbol,
                     !.to = vs, !.f = Lookup(symbol, vs)]]
  /\ UNCHANGED <<clock, cache, written>>

(***************************************************************************)
(* commands/convert: handleConvertCommand.                                 *)
(***************************************************************************)
\* an amount of 310 digits (10^309), which the pattern [0-9]+ accepts
HugeAmount ==
  "1000000000000000000000000000000000000000000000000000000000000000000000000000000000000000000000000000000000000000000000000000000000000000000000000000000000000000000000000000000000000000000000000000000000000000000000000000000000000000000000000000000000000000000000000000000000000000000000000000000000000000000000"
AmountTexts == {"0", "2", HugeAmount}

\* parseFloat on the texts the pattern [0-9]+(\.[0-9]+)? lets through
ParseFloat(text) ==
  CASE text = "0" -> Num(0)
    [] text = "2" -> Num(2)
    [] text = HugeAmount -> JsInfinity

\* what input.match(...) gives: null, or the three captured groups
NoMatch == [matched |-> FALSE, amount |-> "", from |-> "", to |-> ""]
Parts(amount, from, to) ==
  [matched |-> TRUE, amount |-> amount, from |-> from, to |-> to]
ConvertInputs ==
  {NoMatch} \cup {Parts(a, x, y) : a \in AmountTexts, x \in Symbols, y \in Symbols}

\* faulty variant: only a negative amount is turned away
InvalidAmountNegative(amount) ==
  amount.t = "NaN" \/ JsLess(amount, Num(0))

\* Number.isNaN(amount) || amount <= 0
InvalidAmount(amount) ==
  amount.t = "NaN" \/ JsLess(amount, Num(0)) \/ amount = Num(0)

\* handleConvertCommand up to `await getAggregatedPrice(from, 'usd')`
ConvertCommand(p, parts) ==
  /\ FreeSlot(p)
  /\ proc' = [proc EXCEPT ![p] =
       IF ~parts.matched
         THEN [Idle EXCEPT !.cmd = "convert", !.hpc = "replied", !.reply = "usage"]
       ELSE IF InvalidAmount(ParseFloat(parts.amount))
         THEN [Idle EXCEPT !.cmd = "convert", !.hpc = "replied", !.reply = "invalid",
                 !.amount = ParseFloat(parts.amount)]
       ELSE [Idle EXCEPT !.cmd = "convert", !.hpc = "await",
               !.amount = ParseFloat(parts.amount),
               !.from = parts.from, !.to = parts.to,
               !.f = Lookup(parts.from, "usd")]]
  /\ UNCHANGED <<clock, cache, written>>

\* amount * (fromPrice / toPrice)
ConvertResult(amount, fromPrice, toPrice) ==
  JsMul(amount, JsDiv(fromPrice, toPrice))

\* !fromPrice || !toPrice
PriceMissing(fromPrice, toPrice) == ~Truthy(fromPrice) \/ ~Truthy(toPrice)

(***************************************************************************)
(* The provider responses inside getAggregatedPrice.                       *)
(***************************************************************************)
\* `await fetchFromCoinGecko(symbol, vs)` settles with res; the loop goes on to
\* 'binance', whose first request leaves
CgResponse(p, res) ==
  LET f == proc[p].f
      out == fetchFromCoinGecko(res)
      v == out.v
      pairs == pairsToTry(f.symbol, f.vs)
  IN  /\ ~Urgent
      /\ f.pc = "cg"
      /\ proc' = [proc EXCEPT ![p].f =
           IF out.threw
             THEN [f EXCEPT !.pc = "threw"]
             ELSE [f EXCEPT !.pc = "bn", !.cgRes = res, !.cgRet = v,
                     !.results = Push(@, "coingecko", v),
                     !.pair = 1, !.nBn = 1,
                     !.bnReq = <<pairs[1]>>]]
      /\ UNCHANGED <<clock, cache, written>>

\* The request for the current Binance candidate settles with res: the next
\* candidate's request leaves, or fetchFromBinance returns and
\* getAggregatedPrice runs to its end (median, cache.set, return).
BnResponse(p, res) ==
  LET f == proc[p].f
      pairs == pairsToTry(f.symbol, f.vs)
      step == BinanceStep(pairs, f.pair, res)
      v == step.out.v
      results == Push(f.results, "binance", v)
      key == getCacheKey(f.symbol, f.vs)
      agg == Aggregate(cache, key, f.now, results)
      q == QueryId(f.symbol, f.vs)
  IN  /\ ~Urgent
      /\ f.pc = "bn"
      /\ IF step.out.threw
           THEN /\ proc' = [proc EXCEPT ![p].f = [f EXCEPT !.pc = "threw"]]
                /\ UNCHANGED <<cache, written>>
         ELSE IF step.op = "next"
           THEN /\ proc' = [proc EXCEPT ![p].f =
                     [f EXCEPT !.pair = @ + 1, !.bnRes = res,
                        !.bnReq = Append(@, pairs[f.pair + 1])]]
                /\ UNCHANGED <<cache, written>>
         ELSE /\ proc' = [proc EXCEPT ![p].f =
                   [f EXCEPT !.pc = "ret", !.bnRes = res, !.bnRet = v,
                      !.results = results,
                      !.value = agg.value, !.nSet = agg.sets]]
              /\ cache' = agg.cache
              /\ written' = [k \in DOMAIN written \cup {q} |->
                   IF k = q
                     THEN [value |-> agg.value, ts |-> f.now,
                           firstAt |-> IF q \in DOMAIN written
                                         THEN written[q].firstAt ELSE clock,
                           by |-> PairOf(f.symbol, f.vs)]
                     ELSE written[k]]
      /\ UNCHANGED clock

(***************************************************************************)
(* The handlers after their awaits.                                        *)
(***************************************************************************)
\* handlePriceCommand from `const price = await ...` to its end
PriceReply(h) ==
  IF h.f.pc = "threw"
    THEN [h EXCEPT !.hpc = "replied", !.reply = "error", !.f = NoCall]
  ELSE IF h.f.value = JsNull
    THEN [h EXCEPT !.hpc = "replied", !.reply = "notfound",
            !.fromPrice = h.f.value, !.f = NoCall]
  ELSE [h EXCEPT !.hpc = "replied", !.reply = "price", !.fromPrice = h.f.value,
          !.result = h.f.value, !.f = NoCall]

\* handleConvertCommand from `const toPrice = await ...` to its end
ConvertReply(h) ==
  IF h.f.pc = "threw"
    THEN [h EXCEPT !.hpc = "replied", !.reply = "error", !.f = NoCall]
  ELSE LET toPrice == h.f.value
       IN  IF PriceMissing(h.fromPrice, toPrice)
             THEN [h EXCEPT !.hpc = "replied", !.toPrice = toPrice,
                     !.reply = "notfound", !.f = NoCall]
             ELSE [h EXCEPT !.hpc = "replied", !.toPrice = toPrice,
                     !.reply = "result", !.f = NoCall,
                     !.result = ConvertResult(h.amount, h.fromPrice, toPrice)]

\* the awaited getAggregatedPrice call of handler p has settled
Continue(p) ==
  LET h == proc[p]
  IN  /\ h.hpc \in {"await", "await2"}
      /\ h.f.pc \in {"ret", "threw"}
      /\ proc' = [proc EXCEPT ![p] =
           IF h.cmd = "price" THEN PriceReply(h)
           ELSE IF h.hpc = "await2" THEN ConvertReply(h)
           ELSE IF h.f.pc = "threw"
             THEN [h EXCEPT !.hpc = "replied", !.reply = "error", !.f = NoCall]
           \* const fromPrice = ...; then getAggregatedPrice(to, 'usd')
           ELSE [h EXCEPT !.hpc = "await2", !.fromPrice = h.f.value,
                   !.f = Lookup(h.to, "usd")]]
      /\ UNCHANGED <<clock, cache, written>>

\* the handler has replied and is gone
Finish(p) ==
  /\ proc[p].hpc = "replied"
  /\ proc' = [proc EXCEPT ![p] = Idle]
  /\ UNCHANGED <<clock, cache, written>>

\* Time passes: Date.now() is observed every five seconds.
Tick ==
  /\ ~Urgent
  /\ clock + 5000 <= MaxTime
  /\ clock' = clock + 5000
  /\ UNCHANGED <<cache, proc, written>>

(***************************************************************************)
(* Spec: two handlers in flight at once, time passing, /price commands     *)
(* for two symbols, each provider answering with a fault or a price.       *)
(***************************************************************************)
SomeSymbols == {"btc", "eth"}
SomeQuotes == {"usd"}
SomeCgResponses == {Response("neterr", JsUndefined), Response("ok", Num(2))}
SomeBnResponses == {Response("http", JsUndefined), Response("ok", NumStr(1))}

Next ==
  \/ \E p \in Procs, symbol \in SomeSymbols, vsArg \in SomeQuotes :
       PriceCommand(p, symbol, vsArg)
  \/ \E p \in Procs, res \in SomeCgResponses : CgResponse(p, res)
  \/ \E p \in Procs, res \in SomeBnResponses : BnResponse(p, res)
  \/ \E p \in Procs : Continue(p)
  \/ \E p \in Procs : Finish(p)
  \/ Tick

Spec == Init /\ [][Next]_vars

(***************************************************************************)
(* SpecData: one handler at a time within one instant, /price and /convert *)
(* commands with every input and every provider response of the model.     *)
(***************************************************************************)
NextData ==
  \/ \E symbol \in Symbols \cup {""}, vsArg \in Quotes \cup {NoArg} :
       PriceCommand(1, symbol, vsArg)
  \/ \E parts \in ConvertInputs : ConvertCommand(1, parts)
  \/ \E res \in CgResponses : CgResponse(1, res)
  \/ \E res \in BnResponses : BnResponse(1, res)
  \/ Continue(1)
  \/ Finish(1)

SpecData == Init /\ [][NextData]_vars

(***************************************************************************)
(* SpecKeys: one handler at a time within one instant, /price commands     *)
(* whose words contain the "_" the cache key is joined by.                 *)
(***************************************************************************)
NextKeys ==
  \/ \E symbol \in KeySymbols, vsArg \in KeyQuotes : PriceCommand(1, symbol, vsArg)
  \/ \E res \in SomeCgResponses : CgResponse(1, res)
  \/ \E res \in SomeBnResponses : BnResponse(1, res)
  \/ Continue(1)
  \/ Finish(1)

SpecKeys == Init /\ [][NextKeys]_vars

(***************************************************************************)
(* Properties.                                                             *)
(***************************************************************************)
\* handler p calls getAggregatedPrice in this step
Started(p) ==
  /\ proc'[p].hpc \in {"await", "await2"}
  /\ proc'[p].hpc # proc[p].hpc

\* the call made no provider request
NoProviderCall(f) == f.nCg = 0 /\ f.nBn = 0 /\ f.cgReq = <<>> /\ f.bnReq = <<>>

\* a getAggregatedPrice call that has returned after a cache miss
Aggregated(f) == f.pc = "ret" /\ ~f.hit

\* C1: a getAggregatedPrice call that finds an entry for its key within TTL
\* returns the value last written for that key and calls no provider.
C1_HitReturnsLastWritten ==
  [][\A p \in Procs :
       Started(p) /\ proc'[p].f.found /\ ~proc'[p].f.expired =>
         LET f == proc'[p].f
             q == QueryId(f.symbol, f.vs)
         IN  /\ f.pc = "ret"
             /\ q \in DOMAIN written
             /\ f.value = written[q].value
             /\ NoProviderCall(f)]_vars

C1_Witness ==
  \E p \in Procs :
    /\ proc[p].f.pc = "ret"
    /\ proc[p].f.hit
    /\ proc[p].f.value = Num(2)
    /\ clock = 5000

\* C2 (as stated): every call for a key issued less than TTL after the first
\* aggregation for that key completed returns the cached value and calls no
\* provider.
C2_Original ==
  [][\A p \in Procs :
       Started(p) =>
         LET f == proc'[p].f
             q == QueryId(f.symbol, f.vs)
         IN  (q \in DOMAIN written /\ clock - written[q].firstAt < TTL) =>
               f.hit /\ NoProviderCall(f)]_vars

\* the number of times a call invoked the client of a provider
Invocations(f, provider) ==
  IF provider = "coingecko" THEN f.nCg ELSE f.nBn

\* C3: a lookup that finds an entry whose TTL has elapsed does not reuse it;
\* the aggregation it runs invokes each configured provider exactly once and
\* overwrites the entry exactly once, with its outcome.
C3_ExpiredEntryReaggregated ==
  \A p \in Procs :
    LET f == proc[p].f
    IN  f.pc # "none" /\ f.expired =>
          /\ ~f.hit
          /\ f.pc = "ret" =>
               /\ \A i \in 1..Len(preferred) : Invocations(f, preferred[i]) = 1
               /\ f.nSet = 1
               /\ cache[getCacheKey(f.symbol, f.vs)].value = f.value

C3_Witness ==
  \E p \in Procs :
    /\ proc[p].f.expired
    /\ Aggregated(proc[p].f)
    /\ proc[p].f.value = Num(1)

\* C5 (as stated): the entry an aggregation writes carries the time of the
\* write.
C5_Original ==
  \A p \in Procs :
    Aggregated(proc[p].f) =>
      cache[getCacheKey(proc[p].f.symbol, proc[p].f.vs)].ts = clock

\* C7: once the latest aggregation for a key has ended without any price,
\* every lookup for the key less than TTL after that aggregation's timestamp
\* returns no-price-available and calls no provider.
C7_NoPriceIsCached ==
  [][\A p \in Procs :
       Started(p) =>
         LET f == proc'[p].f
             q == QueryId(f.symbol, f.vs)
         IN  (/\ q \in DOMAIN written
              /\ written[q].value = JsNull
              /\ clock - written[q].ts < TTL) =>
               f.pc = "ret" /\ f.hit /\ f.value = JsNull /\ NoProviderCall(f)]_vars

C7_Witness ==
  \E p \in Procs :
    /\ proc[p].f.pc = "ret"
    /\ proc[p].f.hit
    /\ proc[p].f.value = JsNull
    /\ clock = 5000

\* the prices a call collected, in the order the providers returned them
PricesOf(f) == [i \in 1..Len(f.results) |-> f.results[i].price]

\* the number of prices of s below v, and the number not above v
Below(s, v) == Cardinality({i \in 1..Len(s) : JsLess(s[i], v)})
NotAbove(s, v) == Cardinality({i \in 1..Len(s) : ~JsLess(v, s[i])})

\* v stands at 0-based position k of the prices s sorted ascending
StandsAt(s, v, k) ==
  /\ \E i \in 1..Len(s) : s[i] = v
  /\ Below(s, v) <= k
  /\ NotAbove(s, v) >= k + 1

AllFinite(s) == \A i \in 1..Len(s) : IsFinite(s[i])

\* C4 (as stated): the aggregated value is the median of the present prices,
\* the lower of the two middle ones when their count is even.
C4_Original ==
  \A p \in Procs :
    LET f == proc[p].f
    IN  Aggregated(f) /\ Len(f.results) > 0 /\ AllFinite(PricesOf(f)) =>
          StandsAt(PricesOf(f), f.value, (Len(f.results) - 1) \div 2)

\* C4 (amended): the aggregated value is the median of the present prices,
\* the upper of the two middle ones when their count is even.
C4_UpperMedian ==
  \A p \in Procs :
    LET f == proc[p].f
    IN  Aggregated(f) /\ Len(f.results) > 0 /\ AllFinite(PricesOf(f)) =>
          StandsAt(PricesOf(f), f.value, Len(f.results) \div 2)

C4_Witness ==
  \E p \in Procs :
    /\ Aggregated(proc[p].f)
    /\ PricesOf(proc[p].f) = <<Num(2), Num(1)>>
    /\ proc[p].f.value = Num(2)

\* every configured provider was absent for the call
AllAbsent(f) == f.cgRet = JsNull /\ f.bnRet = JsNull

\* C6: an aggregation returns no-price-available (null) exactly when every
\* provider was absent, and a value of type number otherwise; /price answers
\* "not found" exactly for null.
C6_NoPriceIffAllAbsent ==
  \A p \in Procs :
    /\ Aggregated(proc[p].f) =>
         /\ proc[p].f.value = JsNull <=> AllAbsent(proc[p].f)
         /\ ~AllAbsent(proc[p].f) => IsNumberType(proc[p].f.value)
    /\ proc[p].cmd = "price" /\ proc[p].reply \in {"price", "notfound"} =>
         (proc[p].reply = "notfound" <=> proc[p].fromPrice = JsNull)

C6_Witness ==
  \E p \in Procs :
    /\ proc[p].cmd = "price"
    /\ proc[p].reply = "price"
    /\ proc[p].fromPrice = Num(0)

\* the response is one of the faults of the claim: a timeout, a transport
\* error, a non-2xx status, a missing price field
FaultOrMissing(res) ==
  \/ res.kind \in {"timeout", "neterr", "http", "nodata", "noid"}
  \/ res.kind = "ok" /\ res.price = JsUndefined

\* C8: whatever the providers answer, a provider client returns absent on a
\* fault and never throws, and getAggregatedPrice returns null or a number
\* and never throws to its caller.
C8_FaultsAreAbsence ==
  \A p \in Procs :
    LET f == proc[p].f
    IN  /\ f.pc # "threw"
        /\ proc[p].reply # "error"
        /\ f.pc \in {"bn", "ret"} /\ f.nCg = 1 /\ FaultOrMissing(f.cgRes) =>
             f.cgRet = JsNull
        /\ Aggregated(f) /\ FaultOrMissing(f.bnRes) => f.bnRet = JsNull
        /\ f.pc = "ret" => f.value = JsNull \/ IsNumberType(f.value)

C8_Witness ==
  \E p \in Procs :
    /\ Aggregated(proc[p].f)
    /\ proc[p].f.cgRes.kind = "timeout"
    /\ proc[p].f.bnRes.kind = "http"
    /\ Len(proc[p].f.bnReq) = 3
    /\ proc[p].f.value = JsNull

\* a /convert handler that went through both getAggregatedPrice calls
Converted(h) ==
  h.cmd = "convert" /\ h.hpc = "replied" /\ h.reply \in {"notfound", "result", "error"}

\* C9 (as stated): a conversion with an absent from-price or to-price, or a
\* zero to-price, ends as not found; no conversion yields Infinity or NaN and
\* none crashes.
C9_Original ==
  \A p \in Procs :
    LET h == proc[p]
    IN  Converted(h) =>
          /\ h.reply # "error"
          /\ (h.fromPrice = JsNull \/ h.toPrice = JsNull \/ h.toPrice = Num(0)) =>
               h.reply = "notfound"
          /\ h.reply = "result" => IsFinite(h.result)

\* x = a * (b / c) for finite b and c # 0
IsProduct(x, a, b, c) ==
  IF IsFinite(a)
    THEN IsFinite(x) /\ x.n * a.d * b.d * c.n = a.n * b.n * c.d * x.d
    ELSE IF b.n = 0 THEN x.t = "NaN"
    ELSE x = SignedInfinity(Sign(a) * Sign(b) * Sign(c))

\* C10 (as stated): when both calls return a price and the to-price is not
\* zero, the conversion answers amount * (fromPrice / toPrice).
C10_Original ==
  \A p \in Procs :
    LET h == proc[p]
    IN  Converted(h) /\ IsFinite(h.fromPrice) /\ IsFinite(h.toPrice)
          /\ h.toPrice # Num(0) =>
            /\ h.reply = "result"
            /\ IsProduct(h.result, h.amount, h.fromPrice, h.toPrice)

\* C11 (as stated): aggregations for (symbol, quote) pairs that differ
\* after lower-casing do not interfere.  A lookup reads, and on a hit
\* returns, only an entry that an aggregation for its own pair wrote, and
\* the write that ends an aggregation changes no entry that an aggregation
\* for another pair wrote.
C11_Original ==
  [][\A p \in Procs :
       /\ Started(p) /\ proc'[p].f.found =>
            LET f == proc'[p].f
            IN  written[QueryId(f.symbol, f.vs)].by = PairOf(f.symbol, f.vs)
       /\ (proc[p].f.pc = "bn" /\ proc'[p].f.pc = "ret") =>
            \A k \in DOMAIN cache :
              written[k].by # PairOf(proc[p].f.symbol, proc[p].f.vs) =>
                cache'[k] = cache[k]]_vars

\* the number of present results the median was taken of (prices.length)
SourceCount(f) == Len(f.results)

\* C12: when exactly one provider answered, with price p, and the other was
\* absent, the aggregation returns p, caches p, and counts one source.
C12_SingleSource ==
  \A p \in Procs :
    LET f == proc[p].f
        key == getCacheKey(f.symbol, f.vs)
    IN  Aggregated(f) =>
          /\ (f.cgRet # JsNull /\ f.bnRet = JsNull) =>
               f.value = f.cgRet /\ cache[key].value = f.cgRet /\ SourceCount(f) = 1
          /\ (f.cgRet = JsNull /\ f.bnRet # JsNull) =>
               f.value = f.bnRet /\ cache[key].value = f.bnRet /\ SourceCount(f) = 1

C12_Witness ==
  \E p \in Procs :
    /\ Aggregated(proc[p].f)
    /\ proc[p].f.cgRet = JsNull
    /\ proc[p].f.bnRet = Num(1)
    /\ proc[p].f.value = Num(1)
    /\ SourceCount(proc[p].f) = 1

\* the orders in which the results s can have been collected
Orders(s) ==
  LET n == Len(s)
      bij == {g \in [1..n -> 1..n] : \A i, j \in 1..n : g[i] = g[j] => i = j}
  IN  {[i \in 1..n |-> s[g[i]]] : g \in bij}

\* C13 (as stated): the aggregated value is the same for every order in which
\* the same present results are collected.
C13_Original ==
  \A p \in Procs :
    LET f == proc[p].f
    IN  Aggregated(f) /\ Len(f.results) > 0 =>
          \A s \in Orders(PricesOf(f)) : MedianOf(s) = f.value

\* a price above zero that is neither NaN nor infinite
PositiveFinite(x) == IsFinite(x) /\ x.n > 0

\* C14 (as stated): every result a provider client returns is a positive
\* finite price or absent, so every price the resolver works on is positive
\* and finite.
C14_Original ==
  \A p \in Procs :
    LET f == proc[p].f
    IN  /\ f.pc \in {"bn", "ret"} /\ f.nCg = 1 =>
             f.cgRet = JsNull \/ PositiveFinite(f.cgRet)
        /\ Aggregated(f) => f.bnRet = JsNull \/ PositiveFinite(f.bnRet)
        /\ \A i \in 1..Len(f.results) : PositiveFinite(f.results[i].price)

\* the arguments that differ from (symbol, vs) in letter case at most
Spellings(symbol, vs) ==
  {sv \in Symbols \X Quotes : QueryId(sv[1], sv[2]) = QueryId(symbol, vs)}

\* C15: symbol and quote currency are case-insensitive.  Calls whose
\* arguments differ only in letter case read and write one cache entry (the
\* cache holds one entry per case-folded query that was aggregated), and a
\* call sends every provider the requests any other spelling of its arguments
\* sends.
C15_CaseInsensitive ==
  /\ Cardinality(DOMAIN cache) = Cardinality(DOMAIN written)
  /\ \A p \in Procs :
       LET f == proc[p].f
       IN  f.pc # "none" =>
             \A sv \in Spellings(f.symbol, f.vs) :
               /\ getCacheKey(sv[1], sv[2]) = getCacheKey(f.symbol, f.vs)
               /\ f.pc = "ret" =>
                    /\ getCacheKey(sv[1], sv[2]) \in DOMAIN cache
                    /\ cache[getCacheKey(sv[1], sv[2])].value = f.value
               /\ f.cgReq # <<>> => f.cgReq = <<CoinGeckoRequest(sv[1], sv[2])>>
               /\ \A i \in 1..Len(f.bnReq) :
                    f.bnReq[i] = pairsToTry(sv[1], sv[2])[i]

\* /convert 2 btc BTC: the price of BTC comes from the entry written for btc
C15_Witness ==
  \E p \in Procs :
    /\ proc[p].cmd = "convert"
    /\ proc[p].from = "btc"
    /\ proc[p].to = "BTC"
    /\ proc[p].hpc = "await2"
    /\ proc[p].f.hit
    /\ proc[p].f.value = Num(2)
    /\ DOMAIN cache = {"btc_usd"}

\* the response carries a price: a 2xx answer whose price field is a
\* non-empty string or a non-zero number
ReturnsPrice(res) ==
  /\ res.kind = "ok"
  /\ res.price.t \in {"numstr", "badstr"} \/ (res.price.t = "number" /\ res.price.n # 0)

\* C16: one Binance fetch requests symbol+quote, symbol+USDT, symbol+USD in
\* this order, goes on to the next candidate only after a request without a
\* price, returns the price of the first request that has one, makes at most
\* three requests, and returns absent when all three are without a price.
C16_BinanceCandidates ==
  \A p \in Procs :
    LET f == proc[p].f
        s == ToUpperCase(f.symbol)
        order == <<s \o ToUpperCase(f.vs), s \o "USDT", s \o "USD">>
    IN  /\ f.nBn <= 1
        /\ Len(f.bnReq) <= 3
        /\ \A i \in 1..Len(f.bnReq) : f.bnReq[i] = order[i]
        /\ f.pc = "bn" =>
             /\ Len(f.bnReq) = f.pair
             /\ f.pair > 1 => ~ReturnsPrice(f.bnRes)
        /\ Aggregated(f) =>
             IF ReturnsPrice(f.bnRes)
               THEN f.bnRet = ToNumber(f.bnRes.price)
               ELSE f.bnRet = JsNull /\ Len(f.bnReq) = 3

\* the first candidate failed, the second had the price
C16_Witness ==
  \E p \in Procs :
    /\ Aggregated(proc[p].f)
    /\ proc[p].f.bnReq = <<"ETHUSD", "ETHUSDT">>
    /\ proc[p].f.bnRes = Response("ok", NumStr(1))
    /\ proc[p].f.bnRet = Num(1)

\* the /convert handler in h was given malformed text (no amount was parsed)
\* or an amount that is NaN or not above zero
BadRequest(h) ==
  /\ h.cmd = "convert"
  /\ h.amount = JsUndefined \/ h.amount.t = "NaN" \/ Sign(h.amount) <= 0

\* C17: a /convert request with malformed syntax or with an amount that is
\* NaN or not strictly positive is answered at once with an error message,
\* has made no getAggregatedPrice call and no provider request when it ends,
\* and leaves the cache as it was.
C17_InvalidConvertFailsFast ==
  [][\A p \in Procs :
       /\ (proc[p].hpc = "idle" /\ BadRequest(proc'[p])) =>
            /\ proc'[p].hpc = "replied"
            /\ proc'[p].reply \in {"usage", "invalid"}
            /\ proc'[p].f = NoCall
            /\ proc'[p].fromPrice = JsUndefined /\ proc'[p].toPrice = JsUndefined
            /\ cache' = cache
       /\ BadRequest(proc[p]) => proc'[p] = Idle /\ cache' = cache]_vars

\* /convert 0 btc to eth, turned away while the cache holds an entry
C17_Witness ==
  \E p \in Procs :
    /\ proc[p].cmd = "convert"
    /\ proc[p].reply = "invalid"
    /\ proc[p].amount = Num(0)
    /\ proc[p].f = NoCall
    /\ "btc_usd" \in DOMAIN cache

\* handler p's getAggregatedPrice call ends a miss aggregation in this step
Completes(p) == proc[p].f.pc = "bn" /\ proc'[p].f.pc = "ret"

\* C18: a cache read never changes the cache (a hit leaves the timestamp, a
\* lookup that finds an expired entry leaves the entry); the cache changes
\* only in the step that ends a miss aggregation, by one write, to the key
\* of that aggregation alone; and no value is served from an entry whose
\* timestamp is TTL or more in the past.
C18_ReadsLeaveCache ==
  [][/\ \A p \in Procs : Started(p) =>
           /\ cache' = cache
           /\ proc'[p].f.hit =>
                LET key == getCacheKey(proc'[p].f.symbol, proc'[p].f.vs)
                IN  /\ clock - cache[key].ts < TTL
                    /\ proc'[p].f.value = cache[key].value
     /\ cache' # cache =>
           \E p \in Procs :
             LET key == getCacheKey(proc[p].f.symbol, proc[p].f.vs)
             IN  /\ Completes(p)
                 /\ proc'[p].f.nSet = 1
                 /\ DOMAIN cache' = DOMAIN cache \cup {key}
                 /\ \A k \in DOMAIN cache : k # key => cache'[k] = cache[k]]_vars

\* at 10 s: a /price eth lookup found the entry stamped 0 expired and the
\* entry is still there, while /price btc is served the entry stamped 5 s,
\* whose timestamp the read left alone
C18_Witness ==
  \E p, r \in Procs :
    /\ proc[p].f.expired
    /\ proc[p].f.pc = "cg"
    /\ proc[p].f.symbol = "eth"
    /\ cache["eth_usd"].ts = 0
    /\ proc[r].f.hit
    /\ proc[r].f.symbol = "btc"
    /\ cache["btc_usd"].ts = 5000
    /\ clock = 10000

====
